---- MODULE Spec2Model ----
(***************************************************************************)
(* removeComments (src/index.js): the Dart comment remover.  Texts are     *)
(* TLA+ strings; indexes are the 0-based indexes of the JavaScript source. *)
(* A character outside ASCII is written as the bytes of its UTF-8          *)
(* encoding, one character of the TLA+ string for each byte; the string    *)
(* helpers take offsets in that string, which on ASCII text are the        *)
(* JavaScript indexes, and UnitsOf and ByteOf convert between the two.     *)
(* The older copy of the function (src/unnamed/part_000) is the second     *)
(* state machine, Next000, over the same variables.                        *)
(***************************************************************************)
EXTENDS Integers, Sequences, FiniteSets, TLC

----------------------------------------------------------------------------
(* String helpers: the JavaScript String methods the source calls.         *)

\* s[i] (0-based); "" past the end
At(s, i) == IF 0 <= i /\ i < Len(s) THEN SubSeq(s, i + 1, i + 1) ELSE ""

\* s.slice(a, b), 0 <= a
Slice(s, a, b) ==
  LET e == IF b > Len(s) THEN Len(s) ELSE b
  IN IF a >= e THEN "" ELSE SubSeq(s, a + 1, e)

\* s.slice(a)
SliceFrom(s, a) == Slice(s, a, Len(s))

\* s.startsWith(p, i)
StartsAt(s, p, i) == /\ i + Len(p) <= Len(s)
                     /\ SubSeq(s, i + 1, i + Len(p)) = p

\* s.indexOf(p, from), p non-empty
IndexOf(s, p, from) ==
  LET hits == {k \in from..(Len(s) - Len(p)) : StartsAt(s, p, k)}
  IN IF hits = {} THEN -1 ELSE CHOOSE k \in hits : \A j \in hits : k <= j

\* s.includes(p)
Includes(s, p) == IndexOf(s, p, 0) # -1

\* s.startsWith(p)
StartsWith(s, p) == StartsAt(s, p, 0)

\* s.endsWith(p)
EndsWith(s, p) == /\ Len(p) <= Len(s)
                  /\ StartsAt(s, p, Len(s) - Len(p))

\* the bytes 0x80 to 0xBF, which continue a character of several bytes
ContinuationBytes ==
  { "", "", "", "", "", "", "", "",
    "", "", "", "", "", "", "", "",
    "", "", "", "", "", "", "", "",
    "", "", "", "", "", "", "", "",
    " ", "¡", "¢", "£", "¤", "¥", "¦", "§",
    "¨", "©", "ª", "«", "¬", "­", "®", "¯",
    "°", "±", "²", "³", "´", "µ", "¶", "·",
    "¸", "¹", "º", "»", "¼", "½", "¾", "¿" }

\* the bytes 0xF0 to 0xF4, which start a character of four bytes: two
\* UTF-16 units, where every other character is one
FourByteLeads == {"ð", "ñ", "ò", "ó", "ô"}

\* the JavaScript index (in UTF-16 units) of the place at offset b of s
UnitsOf(s, b) ==
  LET n == IF b < Len(s) THEN b ELSE Len(s)
  IN Cardinality({k \in 0..(n - 1) : At(s, k) \notin ContinuationBytes})
       + Cardinality({k \in 0..(n - 1) : At(s, k) \in FourByteLeads})
       + (b - n)

\* the offset in s of the JavaScript index u: the first start of a
\* character with at least u units before it; past the end as the code
\* counts it
ByteOf(s, u) ==
  LET total == UnitsOf(s, Len(s))
      at == {b \in 0..Len(s) : /\ UnitsOf(s, b) >= u
                               /\ At(s, b) \notin ContinuationBytes}
  IN IF total = Len(s) THEN u
     ELSE IF u >= total THEN Len(s) + (u - total)
     ELSE CHOOSE b \in at : \A c \in at : b <= c

\* has s only characters of one byte; offsets and JavaScript indexes are
\* then the same numbers
Narrow(s) == \A k \in 1..Len(s) : SubSeq(s, k, k) \notin ContinuationBytes

\* s.indexOf(p, from) with from and the result as JavaScript indexes
IndexOfUnits(s, p, from) ==
  LET b == IndexOf(s, p, ByteOf(s, from))
  IN IF Narrow(s) THEN IndexOf(s, p, from)
     ELSE IF b = -1 THEN -1 ELSE UnitsOf(s, b)

\* s.slice(a, b) and s.slice(a) with a and b as JavaScript indexes
SliceUnits(s, a, b) ==
  IF Narrow(s) THEN Slice(s, a, b) ELSE Slice(s, ByteOf(s, a), ByteOf(s, b))

SliceFromUnits(s, a) ==
  IF Narrow(s) THEN SliceFrom(s, a) ELSE SliceFrom(s, ByteOf(s, a))

\* the characters \s, trim() and trimEnd() treat as white space: tab, line
\* feed, vertical tab, form feed, carriage return, space, and U+00A0,
\* U+1680, U+2000 to U+200A, U+2028, U+2029, U+202F, U+205F, U+3000, U+FEFF
WhiteSpace ==
  { " ", "\t", "\n", "\r", "\f", "",
    "Â ", "á",
    "â", "â", "â", "â",
    "â", "â", "â", "â",
    "â", "â", "â",
    "â¨", "â©", "â¯", "â", "ã", "ï»¿" }

\* the characters the regular expression dot does not match: line feed,
\* carriage return, U+2028, U+2029
LineTerminators == {"\n", "\r", "â¨", "â©"}

\* the length of the white-space character that starts at index i of s, 0
\* when there is none
WsAt(s, i) ==
  IF At(s, i) \in WhiteSpace THEN 1
  ELSE IF i + 2 <= Len(s) /\ SubSeq(s, i + 1, i + 2) \in WhiteSpace THEN 2
  ELSE IF i + 3 <= Len(s) /\ SubSeq(s, i + 1, i + 3) \in WhiteSpace THEN 3
  ELSE 0

\* the length of the white-space character that ends right before index n
\* of s, 0 when there is none
WsBefore(s, n) ==
  IF n >= 1 /\ At(s, n - 1) \in WhiteSpace THEN 1
  ELSE IF n >= 2 /\ SubSeq(s, n - 1, n) \in WhiteSpace THEN 2
  ELSE IF n >= 3 /\ SubSeq(s, n - 2, n) \in WhiteSpace THEN 3
  ELSE 0

\* a line terminator starts at index i of s
LineTerminatorAt(s, i) ==
  \/ At(s, i) \in LineTerminators
  \/ i + 3 <= Len(s) /\ SubSeq(s, i + 1, i + 3) \in LineTerminators

\* number of leading white-space characters of s from index i on
RECURSIVE WsRun(_, _)
WsRun(s, i) ==
  LET k == WsAt(s, i) IN IF k > 0 THEN k + WsRun(s, i + k) ELSE 0

\* the leading white space of a line: match(/^\s*/)[0]
Indent(s) == Slice(s, 0, WsRun(s, 0))

\* length of s without its trailing white space
RECURSIVE TrimEndLen(_, _)
TrimEndLen(s, n) ==
  LET k == WsBefore(s, n) IN IF k > 0 THEN TrimEndLen(s, n - k) ELSE n

\* s.trimEnd()
TrimEnd(s) == Slice(s, 0, TrimEndLen(s, Len(s)))

\* s.trim()
Trim(s) == LET e == TrimEndLen(s, Len(s))
               b == WsRun(s, 0)
           IN IF b >= e THEN "" ELSE Slice(s, b, e)

\* s.split('\n'), from index i on
RECURSIVE SplitFrom(_, _)
SplitFrom(s, i) ==
  LET n == IndexOf(s, "\n", i)
  IN IF n = -1 THEN <<SliceFrom(s, i)>>
     ELSE <<Slice(s, i, n)>> \o SplitFrom(s, n + 1)

SplitLines(s) == SplitFrom(s, 0)

\* lines.join('\n')
RECURSIVE JoinLines(_)
JoinLines(ls) ==
  IF ls = <<>> THEN ""
  ELSE IF Len(ls) = 1 THEN ls[1]
  ELSE ls[1] \o "\n" \o JoinLines(Tail(ls))

\* index of the end of the line that holds index i: [^\n]* from i
EndOfLine(s, i) == LET n == IndexOf(s, "\n", i) IN IF n = -1 THEN Len(s) ELSE n

\* String(n) for n >= 0
Digit(d) == SubSeq("0123456789", d + 1, d + 1)

RECURSIVE NumToString(_)
NumToString(n) ==
  IF n < 10 THEN Digit(n) ELSE NumToString(n \div 10) \o Digit(n % 10)

\* number of characters of the digit run \d+ from index i on
RECURSIVE DigitRun(_, _)
DigitRun(s, i) ==
  IF i < Len(s) /\ At(s, i) \in {"0","1","2","3","4","5","6","7","8","9"}
  THEN 1 + DigitRun(s, i + 1) ELSE 0

----------------------------------------------------------------------------
(* The regular expressions of the source, as matchers: each gives the      *)
(* index just past the match that starts at index i, or -1.                *)

\* content.replace(/\/\/\/[^\n]*/g, '')
RECURSIVE RemoveDocFrom(_, _)
RemoveDocFrom(s, i) ==
  LET n == IndexOf(s, "///", i)
  IN IF n = -1 THEN SliceFrom(s, i)
     ELSE Slice(s, i, n) \o RemoveDocFrom(s, EndOfLine(s, n))

RemoveDocComments(s) == RemoveDocFrom(s, 0)

\* the line-comment replace without its lookbehind: /\/\/[^\n]*/g
RECURSIVE RemoveLineFromUnguarded(_, _)
RemoveLineFromUnguarded(s, i) ==
  LET n == IndexOf(s, "//", i)
  IN IF n = -1 THEN SliceFrom(s, i)
     ELSE Slice(s, i, n) \o RemoveLineFromUnguarded(s, EndOfLine(s, n))

\* content.replace(/(?<!:)\/\/[^\n]*/g, '')
RECURSIVE RemoveLineFrom(_, _)
RemoveLineFrom(s, i) ==
  LET n == IndexOf(s, "//", i)
  IN IF n = -1 THEN SliceFrom(s, i)
     ELSE IF n > 0 /\ At(s, n - 1) = ":"
     THEN Slice(s, i, n + 1) \o RemoveLineFrom(s, n + 1)
     ELSE Slice(s, i, n) \o RemoveLineFrom(s, EndOfLine(s, n))

RemoveLineComments(s) == RemoveLineFrom(s, 0)

\* expr.replace(/\/\*[\s\S]*?\*\//g, ''): the non-nesting block comment
RECURSIVE RemoveFlatBlocksFrom(_, _)
RemoveFlatBlocksFrom(s, i) ==
  LET n == IndexOf(s, "/*", i)
      e == IndexOf(s, "*/", n + 2)
  IN IF n = -1 \/ e = -1 THEN SliceFrom(s, i)
     ELSE Slice(s, i, n) \o RemoveFlatBlocksFrom(s, e + 2)

RemoveFlatBlocks(s) == RemoveFlatBlocksFrom(s, 0)

\* cleanExpr: the three replaces applied to the text of an interpolation
CleanExpr(expr) == RemoveFlatBlocks(RemoveLineComments(RemoveDocComments(expr)))

\* the body and closing quote of a one-quote literal, from index i on (just
\* past the opening quote): unescaped characters and backslash pairs, then q
RECURSIVE QuotedEnd(_, _, _)
QuotedEnd(s, i, q) ==
  IF i >= Len(s) THEN -1
  ELSE IF At(s, i) = q THEN i + 1
  ELSE IF At(s, i) = "\\"
       THEN IF i + 1 < Len(s) /\ ~LineTerminatorAt(s, i + 1)
            THEN QuotedEnd(s, i + 2, q) ELSE -1
  ELSE QuotedEnd(s, i + 1, q)

\* q3[\s\S]*?q3 at index i
TripleEnd(s, i, q3) ==
  IF StartsAt(s, q3, i)
  THEN LET e == IndexOf(s, q3, i + 3) IN IF e = -1 THEN -1 ELSE e + 3
  ELSE -1

\* one quote character q at index i, then the body and the closing quote
SingleEnd(s, i, q) == IF At(s, i) = q THEN QuotedEnd(s, i + 1, q) ELSE -1

\* the string-literal regular expression at index i: its four alternatives
\* in order, each after the optional r
StringEnd(s, i) ==
  LET j == IF At(s, i) = "r" THEN i + 1 ELSE i
      t1 == TripleEnd(s, j, "\"\"\"")
      t2 == TripleEnd(s, j, "'''")
      t3 == SingleEnd(s, j, "'")
      t4 == SingleEnd(s, j, "\"")
  IN IF t1 # -1 THEN t1
     ELSE IF t2 # -1 THEN t2
     ELSE IF t3 # -1 THEN t3
     ELSE t4

\* /\$\{([^}]+)\}/ at index i: the index of the closing brace, or -1
HoleClose(s, i) ==
  IF StartsAt(s, "${", i)
  THEN LET k == IndexOf(s, "}", i + 2) IN IF k > i + 2 THEN k ELSE -1
  ELSE -1

----------------------------------------------------------------------------
(* String shielding (index.js 37-132).                                     *)

PlaceholderPrefix == "PRESERVED_STRING_"

\* `PRESERVED_STRING_${stringIndex}`
Placeholder(idx) == PlaceholderPrefix \o NumToString(idx)

\* the first line l of lines with l.trim() && l.includes(trimmed), as a
\* sequence of at most one line
RECURSIVE FindOriginalLine(_, _)
FindOriginalLine(lines, trimmed) ==
  IF lines = <<>> THEN <<>>
  ELSE IF Trim(lines[1]) # "" /\ Includes(lines[1], trimmed) THEN <<lines[1]>>
  ELSE FindOriginalLine(Tail(lines), trimmed)

\* the processedLines of a regular string's interpolation, before the
\* filter(Boolean)
HoleLine(line, lines, baseIndent) ==
  LET trimmed == Trim(line)
      found == FindOriginalLine(lines, trimmed)
  IN IF trimmed = "" THEN ""
     ELSE IF found # <<>> THEN Indent(found[1]) \o trimmed
     ELSE baseIndent \o trimmed

\* the processedLines of a raw string's interpolation
RawHoleLine(line, baseIndent) ==
  LET trimmed == Trim(line)
  IN IF trimmed = "" THEN "" ELSE baseIndent \o trimmed

\* ls.filter(Boolean)
RECURSIVE FilterNonEmpty(_)
FilterNonEmpty(ls) ==
  IF ls = <<>> THEN <<>>
  ELSE IF ls[1] = "" THEN FilterNonEmpty(Tail(ls))
  ELSE <<ls[1]>> \o FilterNonEmpty(Tail(ls))

\* the replacement of one ${expr} of a regular string (index.js 82-123)
HoleReplacement(expr) ==
  LET lines == SplitLines(expr)
      baseIndent == Indent(lines[1])
      lastIndent == Indent(lines[Len(lines)])
      cleanExpr == CleanExpr(expr)
      cleanLines == SplitLines(cleanExpr)
      processedLines ==
        FilterNonEmpty([k \in 1..Len(cleanLines) |->
                          HoleLine(cleanLines[k], lines, baseIndent)])
  IN IF Includes(expr, "\n")
     THEN "${" \o "\n" \o JoinLines(processedLines) \o "\n" \o lastIndent \o "}"
     ELSE "${" \o Trim(cleanExpr) \o "}"

\* the replacement of one ${expr} of a raw string (index.js 47-76)
RawHoleReplacement(expr) ==
  LET lines == SplitLines(expr)
      baseIndent == Indent(lines[1])
      lastIndent == Indent(lines[Len(lines)])
      cleanExpr == CleanExpr(expr)
      cleanLines == SplitLines(cleanExpr)
      processedLines ==
        FilterNonEmpty([k \in 1..Len(cleanLines) |->
                          RawHoleLine(cleanLines[k], baseIndent)])
  IN IF Includes(expr, "${") \/ Includes(expr, "/*") \/ Includes(expr, "//")
     THEN "${" \o expr \o "}"
     ELSE IF Includes(expr, "\n")
     THEN "${" \o "\n" \o JoinLines(processedLines) \o "\n" \o lastIndent \o "}"
     ELSE "${" \o Trim(cleanExpr) \o "}"

\* interpolatedContent.replace(interpolationRegex, ...) from index i on
RECURSIVE ReplaceHolesFrom(_, _, _)
ReplaceHolesFrom(s, i, isRawString) ==
  LET n == IndexOf(s, "${", i)
      k == HoleClose(s, n)
  IN IF n = -1 THEN SliceFrom(s, i)
     ELSE IF k = -1 THEN Slice(s, i, n + 1) \o ReplaceHolesFrom(s, n + 1, isRawString)
     ELSE Slice(s, i, n)
          \o (IF isRawString THEN RawHoleReplacement(Slice(s, n + 2, k))
              ELSE HoleReplacement(Slice(s, n + 2, k)))
          \o ReplaceHolesFrom(s, k + 1, isRawString)

\* what the callback returns for a literal that includes '${'
InterpolatedContent(match) == ReplaceHolesFrom(match, 0, StartsWith(match, "r"))

\* preservedStrings[stringIndex] = match
SetPreserved(ps, idx, match) ==
  IF idx < Len(ps) THEN [ps EXCEPT ![idx + 1] = match] ELSE Append(ps, match)

\* content.replace(<string literal>, callback) from index i on: the new
\* text, the side table and the next stringIndex
\* the index of the first quote character at or after index i, or -1
NextQuote(s, i) ==
  LET a == IndexOf(s, "'", i)
      b == IndexOf(s, "\"", i)
  IN IF a = -1 THEN b ELSE IF b = -1 THEN a ELSE IF a < b THEN a ELSE b

\* the index at or after i where the regular expression is tried next with a
\* chance to match: a match starts at a quote or at the r before one
NextStringStart(s, i) ==
  LET q == NextQuote(s, i)
  IN IF q = -1 THEN -1
     ELSE IF q > i /\ At(s, q - 1) = "r" THEN q - 1 ELSE q

RECURSIVE ShieldFrom(_, _, _, _)
ShieldFrom(s, i, ps, idx) ==
  LET n == NextStringStart(s, i)
      e == StringEnd(s, n)
      match == Slice(s, n, e)
  IN IF n = -1 THEN [text |-> SliceFrom(s, i), ps |-> ps, idx |-> idx]
     ELSE IF e = -1
     THEN LET r == ShieldFrom(s, n + 1, ps, idx)
          IN [r EXCEPT !.text = Slice(s, i, n + 1) \o r.text]
     ELSE IF Includes(match, "${")
     THEN LET r == ShieldFrom(s, e, ps, idx)
          IN [r EXCEPT !.text = Slice(s, i, n) \o InterpolatedContent(match) \o r.text]
     ELSE LET r == ShieldFrom(s, e, SetPreserved(ps, idx, match), idx + 1)
          IN [r EXCEPT !.text = Slice(s, i, n) \o Placeholder(idx) \o r.text]

\* ShieldStrings that shields no literal
ShieldNothing(s, ps) == [text |-> s, ps |-> ps, idx |-> 0]

ShieldStrings(s, ps) == ShieldFrom(s, 0, ps, 0)

----------------------------------------------------------------------------
(* Placeholder restore (index.js 190-193).                                 *)

\* preservedStrings[index] for the digit string index; String(undefined)
\* when the array has no such element
PreservedAt(ps, index) ==
  IF \E n \in 0..(Len(ps) - 1) : NumToString(n) = index
  THEN ps[(CHOOSE n \in 0..(Len(ps) - 1) : NumToString(n) = index) + 1]
  ELSE "undefined"

RECURSIVE RestoreFrom(_, _, _)
RestoreFrom(s, i, ps) ==
  LET n == IndexOf(s, PlaceholderPrefix, i)
      b == n + Len(PlaceholderPrefix)
      d == DigitRun(s, b)
  IN IF n = -1 THEN SliceFrom(s, i)
     ELSE IF d = 0 THEN Slice(s, i, n + 1) \o RestoreFrom(s, n + 1, ps)
     ELSE Slice(s, i, n) \o PreservedAt(ps, Slice(s, b, b + d))
          \o RestoreFrom(s, b + d, ps)

RestoreStrings(s, ps) == RestoreFrom(s, 0, ps)

----------------------------------------------------------------------------
(* Blank-line normalization (index.js 195-242).  A mapped line is           *)
(* [keep, text]; keep = FALSE is the null of the source.                   *)

Null == [keep |-> FALSE, text |-> ""]

Kept(text) == [keep |-> TRUE, text |-> text]

\* a chain test that finds no method chain
IsChainGapNever(arr, i) == FALSE

\* the chain test of the map callback (index.js 206-207)
IsChainGap(arr, i) ==
  /\ i > 1
  /\ \/ EndsWith(Trim(arr[i - 1]), ")")
     \/ EndsWith(Trim(arr[i - 1]), "}")
  /\ i < Len(arr)
  /\ StartsWith(Trim(arr[i + 1]), ".")

\* a keep test that keeps every blank line
IsKeptGapAlways(arr, i) == TRUE

\* a keep test that keeps no blank line
IsKeptGapNever(arr, i) == FALSE

\* the keep test of the map callback (index.js 210-212)
IsKeptGap(arr, i) ==
  /\ i > 1
  /\ Trim(arr[i - 1]) # ""
  /\ i < Len(arr)
  /\ Trim(arr[i + 1]) # ""
  /\ ~EndsWith(Trim(arr[i - 1]), "{")
  /\ ~StartsWith(Trim(arr[i + 1]), "}")

\* the map callback on line i (1-based) of arr
MapLine(arr, i) ==
  LET line == arr[i]
      trimmedLine == Trim(line)
  IN IF trimmedLine = ""
     THEN IF IsChainGap(arr, i) THEN Null
          ELSE IF IsKeptGap(arr, i) THEN Kept(Indent(line))
          ELSE Null
     ELSE IF \/ Includes(trimmedLine, PlaceholderPrefix)
             \/ Includes(trimmedLine, "\"\"\"")
             \/ Includes(trimmedLine, "'''")
          THEN Kept(line)
     ELSE Kept(Indent(line) \o trimmedLine)

\* is there a non-null, non-blank mapped line before (after) index i
RECURSIVE PrevNonEmpty(_, _)
PrevNonEmpty(arr, i) ==
  IF i < 1 THEN <<>>
  ELSE IF arr[i].keep /\ Trim(arr[i].text) # "" THEN <<arr[i].text>>
  ELSE PrevNonEmpty(arr, i - 1)

RECURSIVE NextNonEmpty(_, _)
NextNonEmpty(arr, i) ==
  IF i > Len(arr) THEN <<>>
  ELSE IF arr[i].keep /\ Trim(arr[i].text) # "" THEN <<arr[i].text>>
  ELSE NextNonEmpty(arr, i + 1)

\* the filter callback on mapped line i (1-based) of arr
FilterLine(arr, i) ==
  LET prevNonEmpty == PrevNonEmpty(arr, i - 1)
      nextNonEmpty == NextNonEmpty(arr, i + 1)
  IN IF ~arr[i].keep THEN FALSE
     ELSE IF Trim(arr[i].text) = ""
     THEN /\ prevNonEmpty # <<>>
          /\ nextNonEmpty # <<>>
          /\ ~EndsWith(Trim(prevNonEmpty[1]), "{")
          /\ ~StartsWith(Trim(nextNonEmpty[1]), "}")
     ELSE TRUE

RECURSIVE FilteredFrom(_, _)
FilteredFrom(arr, i) ==
  IF i > Len(arr) THEN <<>>
  ELSE IF FilterLine(arr, i) THEN <<arr[i].text>> \o FilteredFrom(arr, i + 1)
  ELSE FilteredFrom(arr, i + 1)

\* lines.map(...).filter(...).join('\n')
NormalizeLines(s) ==
  LET lines == SplitLines(s)
      mapped == [i \in 1..Len(lines) |-> MapLine(lines, i)]
  IN JoinLines(FilteredFrom(mapped, 1))

----------------------------------------------------------------------------
(* Nested block-comment removal (index.js 140-188): one iteration of the   *)
(* outer loop when the stack is empty, of the inner loop otherwise.  The   *)
(* numbers of stack and lastIndex are the numbers of the code, JavaScript  *)
(* indexes in UTF-16 units: lastIndex outlives a cut of content and is     *)
(* then read against the shorter text.                                     *)

\* lines.slice(1).join('\n') of content.slice(from).split('\n')
RemainingCode(content, from) ==
  JoinLines(Tail(SplitLines(SliceFromUnits(content, from))))

\* index.js 153-158: the first closer is missing
CutUnclosed(content, startIndex) ==
  TrimEnd(SliceUnits(content, 0, startIndex)) \o "\n" \o RemainingCode(content, startIndex)

\* index.js 166-171: a closer is missing while comments are open
CutUnclosedNested(content, bottom) ==
  SliceUnits(content, 0, bottom) \o "\n" \o RemainingCode(content, bottom)

\* index.js 182-184: the outermost comment is closed at nextEnd
CutComment(content, start, nextEnd) ==
  TrimEnd(SliceUnits(content, 0, start)) \o SliceFromUnits(content, nextEnd + 2)

\* where the scan resumes after the outermost comment is cut (index.js 184)
ResumeIndex(start, nextEnd) == start

\* index.js 145-159
OuterStep(content, stack, lastIndex) ==
  LET startIndex == IndexOfUnits(content, "/*", lastIndex)
      endIndex == IndexOfUnits(content, "*/", startIndex + 2)
  IN IF startIndex = -1
     THEN [content |-> content, stack |-> stack, lastIndex |-> lastIndex,
           done |-> TRUE]
     ELSE IF endIndex = -1
     THEN [content |-> CutUnclosed(content, startIndex),
           stack |-> Append(stack, startIndex), lastIndex |-> startIndex + 2,
           done |-> TRUE]
     ELSE [content |-> content, stack |-> Append(stack, startIndex),
           lastIndex |-> startIndex + 2, done |-> FALSE]

\* InnerStep without the nesting: the first closer ends the comment
InnerStepFlat(content, stack, lastIndex) ==
  LET nextEnd == IndexOfUnits(content, "*/", lastIndex)
  IN IF nextEnd = -1
     THEN [content |-> CutUnclosedNested(content, stack[1]), stack |-> <<>>,
           lastIndex |-> lastIndex, done |-> FALSE]
     ELSE [content |-> CutComment(content, stack[1], nextEnd), stack |-> <<>>,
           lastIndex |-> ResumeIndex(stack[1], nextEnd), done |-> FALSE]

\* InnerStep that does not leave the loop when the closer is missing
InnerStepStuck(content, stack, lastIndex) ==
  LET nextStart == IndexOfUnits(content, "/*", lastIndex)
      nextEnd == IndexOfUnits(content, "*/", lastIndex)
      start == stack[Len(stack)]
      popped == SubSeq(stack, 1, Len(stack) - 1)
  IN IF nextEnd = -1
     THEN [content |-> content, stack |-> stack, lastIndex |-> lastIndex,
           done |-> FALSE]
     ELSE IF nextStart # -1 /\ nextStart < nextEnd
     THEN [content |-> content, stack |-> Append(stack, nextStart),
           lastIndex |-> nextStart + 2, done |-> FALSE]
     ELSE IF popped = <<>>
     THEN [content |-> CutComment(content, start, nextEnd), stack |-> popped,
           lastIndex |-> ResumeIndex(start, nextEnd), done |-> FALSE]
     ELSE [content |-> content, stack |-> popped, lastIndex |-> nextEnd + 2,
           done |-> FALSE]

\* index.js 161-187
InnerStep(content, stack, lastIndex) ==
  LET nextStart == IndexOfUnits(content, "/*", lastIndex)
      nextEnd == IndexOfUnits(content, "*/", lastIndex)
      start == stack[Len(stack)]
      popped == SubSeq(stack, 1, Len(stack) - 1)
  IN IF nextEnd = -1
     THEN [content |-> CutUnclosedNested(content, stack[1]), stack |-> <<>>,
           lastIndex |-> lastIndex, done |-> FALSE]
     ELSE IF nextStart # -1 /\ nextStart < nextEnd
     THEN [content |-> content, stack |-> Append(stack, nextStart),
           lastIndex |-> nextStart + 2, done |-> FALSE]
     ELSE IF popped = <<>>
     THEN [content |-> CutComment(content, start, nextEnd), stack |-> popped,
           lastIndex |-> ResumeIndex(start, nextEnd), done |-> FALSE]
     ELSE [content |-> content, stack |-> popped, lastIndex |-> nextEnd + 2,
           done |-> FALSE]

BlockStep(content, stack, lastIndex) ==
  IF stack = <<>> THEN OuterStep(content, stack, lastIndex)
  ELSE InnerStep(content, stack, lastIndex)

----------------------------------------------------------------------------
(* The older copy of removeComments (src/unnamed/part_000).  It is a       *)
(* program of its own, with its own command line; it differs from index.js *)
(* in three statements: a string literal is shielded whole, holes          *)
(* included; a block comment leaves its line breaks behind, the text       *)
(* before it keeps its trailing white space and a comment without a closer *)
(* stays; a blank line inside a method chain is kept as any other.         *)

\* part_000 38-44: content.replace(<string literal>, callback) from index i on
RECURSIVE ShieldFrom000(_, _, _, _)
ShieldFrom000(s, i, ps, idx) ==
  LET n == NextStringStart(s, i)
      e == StringEnd(s, n)
      match == Slice(s, n, e)
  IN IF n = -1 THEN [text |-> SliceFrom(s, i), ps |-> ps, idx |-> idx]
     ELSE IF e = -1
     THEN LET r == ShieldFrom000(s, n + 1, ps, idx)
          IN [r EXCEPT !.text = Slice(s, i, n + 1) \o r.text]
     ELSE LET r == ShieldFrom000(s, e, SetPreserved(ps, idx, match), idx + 1)
          IN [r EXCEPT !.text = Slice(s, i, n) \o Placeholder(idx) \o r.text]

ShieldStrings000(s, ps) == ShieldFrom000(s, 0, ps, 0)

\* part_000 82: (commentText.match(/\n/g) || []).join('')
RECURSIVE Newlines(_)
Newlines(s) ==
  IF s = "" THEN ""
  ELSE (IF At(s, 0) = "\n" THEN "\n" ELSE "") \o Newlines(SliceFrom(s, 1))

\* part_000 81-83: the outermost comment is closed at nextEnd
CutComment000(content, start, nextEnd) ==
  SliceUnits(content, 0, start)
    \o Newlines(SliceUnits(content, start, nextEnd + 2))
    \o SliceFromUnits(content, nextEnd + 2)

\* part_000 57-61
OuterStep000(content, stack, lastIndex) ==
  LET startIndex == IndexOfUnits(content, "/*", lastIndex)
  IN IF startIndex = -1
     THEN [content |-> content, stack |-> stack, lastIndex |-> lastIndex,
           done |-> TRUE]
     ELSE [content |-> content, stack |-> Append(stack, startIndex),
           lastIndex |-> startIndex + 2, done |-> FALSE]

\* part_000 63-87
InnerStep000(content, stack, lastIndex) ==
  LET nextStart == IndexOfUnits(content, "/*", lastIndex)
      nextEnd == IndexOfUnits(content, "*/", lastIndex)
      start == stack[Len(stack)]
      popped == SubSeq(stack, 1, Len(stack) - 1)
  IN IF nextEnd = -1
     THEN [content |-> content, stack |-> <<>>, lastIndex |-> lastIndex,
           done |-> FALSE]
     ELSE IF nextStart # -1 /\ nextStart < nextEnd
     THEN [content |-> content, stack |-> Append(stack, nextStart),
           lastIndex |-> nextStart + 2, done |-> FALSE]
     ELSE IF popped = <<>>
     THEN [content |-> CutComment000(content, start, nextEnd), stack |-> popped,
           lastIndex |-> start, done |-> FALSE]
     ELSE [content |-> content, stack |-> popped, lastIndex |-> nextEnd + 2,
           done |-> FALSE]

BlockStep000(content, stack, lastIndex) ==
  IF stack = <<>> THEN OuterStep000(content, stack, lastIndex)
  ELSE InnerStep000(content, stack, lastIndex)

\* part_000 98-124: the map callback on line i (1-based) of arr
MapLine000(arr, i) ==
  LET line == arr[i]
      trimmedLine == Trim(line)
  IN IF trimmedLine = ""
     THEN IF IsKeptGap(arr, i) THEN Kept(Indent(line)) ELSE Null
     ELSE IF \/ Includes(trimmedLine, PlaceholderPrefix)
             \/ Includes(trimmedLine, "\"\"\"")
             \/ Includes(trimmedLine, "'''")
          THEN Kept(line)
     ELSE Kept(Indent(line) \o trimmedLine)

\* part_000 96-139: lines.map(...).filter(...).join('\n')
NormalizeLines000(s) ==
  LET lines == SplitLines(s)
      mapped == [i \in 1..Len(lines) |-> MapLine000(lines, i)]
  IN JoinLines(FilteredFrom(mapped, 1))

----------------------------------------------------------------------------
(* removeComments(flutterProjectPath) as a state machine.  A project tree  *)
(* is the sequence of the texts of its .dart files that the glob finds,    *)
(* in the order the glob returns them; file k is the k-th of them.         *)

VARIABLES
  pc,               \* the statement of removeComments that runs next
  path,             \* what the argument flutterProjectPath denotes
  given,            \* the tree removeComments was first called on
  before,           \* the texts of the files when this call began
  disk,             \* the texts of the files now
  files,            \* const files: the glob result
  fileIndex,        \* the position of the for-loop in files
  content,          \* let content
  originalContent,  \* const originalContent
  stringIndex,      \* let stringIndex
  preservedStrings, \* const preservedStrings, one array for the whole call
  stack,            \* let stack
  lastIndex,        \* let lastIndex
  results,          \* const results
  settled,          \* how the promise settled: "", "returned" or the error message
  log,              \* the file-system calls of this call, in order
  run               \* the number of the call of removeComments on this tree

vars == <<pc, path, given, before, disk, files, fileIndex, content, originalContent,
          stringIndex, preservedStrings, stack, lastIndex, results, settled,
          log, run>>

\* the values of the argument: three falsy ones, a path that does not
\* exist, a path of a regular file, the path of a project directory
MissingPaths == {"null", "undefined", "empty"}

PathArgs == MissingPaths \cup {"nonexistent", "file", "directory"}

RequiredMessage == "Flutter project path is required"

NotDirectoryMessage == "Provided path is not a directory"

\* the errors of the collaborators: fs.stat, fs.readFile, fs.writeFile
StatError == "ENOENT"

ReadError == "EACCES: read"

\* fs.writeFile cannot open the file
WriteError == "EACCES: write"

\* fs.writeFile has opened the file, which empties it, and a write fails
WriteCutError == "EFBIG: write"

\* index.js 6-8: the state at the first call removeComments(p) on the tree g
Start(p, g) ==
  /\ pc = "validate"
  /\ path = p
  /\ given = g
  /\ before = g.texts
  /\ disk = g.texts
  /\ files = <<>>
  /\ fileIndex = 0
  /\ content = ""
  /\ originalContent = ""
  /\ stringIndex = 0
  /\ preservedStrings = <<>>
  /\ stack = <<>>
  /\ lastIndex = 0
  /\ results = <<>>
  /\ settled = ""
  /\ log = <<>>
  /\ run = 1

\* index.js 254-257: the catch block rethrows
Reject(message) ==
  /\ pc' = "rejected"
  /\ settled' = message

\* Validate that checks nothing and goes on to the glob
ValidateNothing ==
  /\ pc = "validate"
  /\ pc' = "glob"
  /\ UNCHANGED <<path, given, before, disk, files, fileIndex, content,
                 originalContent, stringIndex, preservedStrings, stack,
                 lastIndex, results, settled, log, run>>

\* index.js 9-16: the argument check and fs.stat
Validate ==
  /\ pc = "validate"
  /\ IF path \in MissingPaths
     THEN Reject(RequiredMessage) /\ UNCHANGED log
     ELSE IF path = "nonexistent"
     THEN Reject(StatError) /\ log' = Append(log, <<"stat", 0>>)
     ELSE IF path = "file"
     THEN Reject(NotDirectoryMessage) /\ log' = Append(log, <<"stat", 0>>)
     ELSE pc' = "glob" /\ log' = Append(log, <<"stat", 0>>) /\ UNCHANGED settled
  /\ UNCHANGED <<path, given, before, disk, files, fileIndex, content, originalContent,
                 stringIndex, preservedStrings, stack, lastIndex, results, run>>

\* index.js 19-30: the glob, the empty result, the two arrays
Glob ==
  /\ pc = "glob"
  /\ files' = [k \in 1..Len(disk) |-> k]
  /\ log' = Append(log, <<"glob", 0>>)
  /\ IF Len(disk) = 0
     THEN pc' = "returned" /\ settled' = "returned"
     ELSE pc' = "read" /\ UNCHANGED settled
  /\ fileIndex' = 1
  /\ results' = <<>>
  /\ preservedStrings' = <<>>
  /\ UNCHANGED <<path, given, before, disk, content, originalContent, stringIndex,
                 stack, lastIndex, run>>

\* index.js 32-38: the next file is read
ReadFile ==
  /\ pc = "read"
  /\ content' = disk[files[fileIndex]]
  /\ originalContent' = disk[files[fileIndex]]
  /\ stringIndex' = 0
  /\ log' = Append(log, <<"read", files[fileIndex]>>)
  /\ pc' = "shield"
  /\ UNCHANGED <<path, given, before, disk, files, fileIndex, preservedStrings, stack,
                 lastIndex, results, settled, run>>

\* ReadFails that notes the error and goes on with the next file
ReadFailsGoesOn ==
  /\ pc = "read"
  /\ log' = Append(log, <<"read", files[fileIndex]>>)
  /\ settled' = ReadError
  /\ IF fileIndex < Len(files)
     THEN pc' = "read" /\ fileIndex' = fileIndex + 1
     ELSE pc' = "rejected" /\ UNCHANGED fileIndex
  /\ UNCHANGED <<path, given, before, disk, files, content, originalContent,
                 stringIndex, preservedStrings, stack, lastIndex, results, run>>

\* index.js 34: fs.readFile rejects
ReadFails ==
  /\ pc = "read"
  /\ log' = Append(log, <<"read", files[fileIndex]>>)
  /\ Reject(ReadError)
  /\ UNCHANGED <<path, given, before, disk, files, fileIndex, content, originalContent,
                 stringIndex, preservedStrings, stack, lastIndex, results, run>>

\* index.js 39-132
Shield ==
  /\ pc = "shield"
  /\ LET r == ShieldStrings(content, preservedStrings)
     IN /\ content' = r.text
        /\ preservedStrings' = r.ps
        /\ stringIndex' = r.idx
  /\ pc' = "doc"
  /\ UNCHANGED <<path, given, before, disk, files, fileIndex, originalContent, stack,
                 lastIndex, results, settled, log, run>>

\* index.js 135
StripDoc ==
  /\ pc = "doc"
  /\ content' = RemoveDocComments(content)
  /\ pc' = "line"
  /\ UNCHANGED <<path, given, before, disk, files, fileIndex, originalContent,
                 stringIndex, preservedStrings, stack, lastIndex, results,
                 settled, log, run>>

\* index.js 138-142
StripLine ==
  /\ pc = "line"
  /\ content' = RemoveLineComments(content)
  /\ stack' = <<>>
  /\ lastIndex' = 0
  /\ pc' = "block"
  /\ UNCHANGED <<path, given, before, disk, files, fileIndex, originalContent,
                 stringIndex, preservedStrings, results, settled, log, run>>

\* index.js 144-188: one iteration of the outer or of the inner loop
StripBlock ==
  /\ pc = "block"
  /\ \E r \in {BlockStep(content, stack, lastIndex)} :
        /\ content' = r.content
        /\ stack' = r.stack
        /\ lastIndex' = r.lastIndex
        /\ pc' = IF r.done THEN "restore" ELSE "block"
  /\ UNCHANGED <<path, given, before, disk, files, fileIndex, originalContent,
                 stringIndex, preservedStrings, results, settled, log, run>>

\* index.js 191-193
Restore ==
  /\ pc = "restore"
  /\ content' = RestoreStrings(content, preservedStrings)
  /\ pc' = "normalize"
  /\ UNCHANGED <<path, given, before, disk, files, fileIndex, originalContent,
                 stringIndex, preservedStrings, stack, lastIndex, results,
                 settled, log, run>>

\* index.js 196-242
Normalize ==
  /\ pc = "normalize"
  /\ content' = NormalizeLines(content)
  /\ pc' = "write"
  /\ UNCHANGED <<path, given, before, disk, files, fileIndex, originalContent,
                 stringIndex, preservedStrings, stack, lastIndex, results,
                 settled, log, run>>

\* index.js 32, 252-253: the next file, or the return of results
NextFile ==
  IF fileIndex < Len(files)
  THEN pc' = "read" /\ fileIndex' = fileIndex + 1 /\ UNCHANGED settled
  ELSE pc' = "returned" /\ settled' = "returned" /\ UNCHANGED fileIndex

\* ContentChanged that lets every file be written
AlwaysChanged(new, old) == TRUE

\* index.js 245: is the file written
ContentChanged(new, old) == new # old

\* index.js 245-249: the file is written when its text changed
WriteFile ==
  /\ pc = "write"
  /\ IF ContentChanged(content, originalContent)
     THEN /\ disk' = [disk EXCEPT ![files[fileIndex]] = content]
          /\ results' = Append(results, [file |-> files[fileIndex], success |-> TRUE])
          /\ log' = Append(log, <<"write", files[fileIndex]>>)
     ELSE UNCHANGED <<disk, results, log>>
  /\ NextFile
  /\ UNCHANGED <<path, given, before, files, content, originalContent, stringIndex,
                 preservedStrings, stack, lastIndex, run>>

\* index.js 246: fs.writeFile rejects.  Either the file could not be
\* opened and is as it was, or it was opened, which empties it, and holds
\* the bytes written before the failing write: any beginning of content
\* short of the whole.
WriteFails ==
  /\ pc = "write"
  /\ ContentChanged(content, originalContent)
  /\ log' = Append(log, <<"write", files[fileIndex]>>)
  /\ \/ /\ Reject(WriteError)
        /\ UNCHANGED disk
     \/ /\ Reject(WriteCutError)
        /\ \E k \in 0..(Len(content) - 1) :
              disk' = [disk EXCEPT ![files[fileIndex]] = Slice(content, 0, k)]
  /\ UNCHANGED <<path, given, before, files, fileIndex, content, originalContent,
                 stringIndex, preservedStrings, stack, lastIndex, results, run>>

\* removeComments is called again on the tree it has processed
MaxRuns == 2

CallAgain ==
  /\ pc = "returned"
  /\ run < MaxRuns
  /\ pc' = "validate"
  /\ before' = disk
  /\ files' = <<>>
  /\ fileIndex' = 0
  /\ content' = ""
  /\ originalContent' = ""
  /\ stringIndex' = 0
  /\ preservedStrings' = <<>>
  /\ stack' = <<>>
  /\ lastIndex' = 0
  /\ results' = <<>>
  /\ settled' = ""
  /\ log' = <<>>
  /\ run' = run + 1
  /\ UNCHANGED <<path, given, disk>>

Next ==
  \/ Validate
  \/ Glob
  \/ ReadFile
  \/ ReadFails
  \/ Shield
  \/ StripDoc
  \/ StripLine
  \/ StripBlock
  \/ Restore
  \/ Normalize
  \/ WriteFile
  \/ WriteFails
  \/ CallAgain

----------------------------------------------------------------------------
(* removeComments of the older copy (src/unnamed/part_000) as a state      *)
(* machine over the same variables.  Its statements outside the three      *)
(* below are those of index.js, word for word.                             *)

\* part_000 38-44
Shield000 ==
  /\ pc = "shield"
  /\ LET r == ShieldStrings000(content, preservedStrings)
     IN /\ content' = r.text
        /\ preservedStrings' = r.ps
        /\ stringIndex' = r.idx
  /\ pc' = "doc"
  /\ UNCHANGED <<path, given, before, disk, files, fileIndex, originalContent, stack,
                 lastIndex, results, settled, log, run>>

\* part_000 56-88: one iteration of the outer or of the inner loop
StripBlock000 ==
  /\ pc = "block"
  /\ \E r \in {BlockStep000(content, stack, lastIndex)} :
        /\ content' = r.content
        /\ stack' = r.stack
        /\ lastIndex' = r.lastIndex
        /\ pc' = IF r.done THEN "restore" ELSE "block"
  /\ UNCHANGED <<path, given, before, disk, files, fileIndex, originalContent,
                 stringIndex, preservedStrings, results, settled, log, run>>

\* part_000 96-139
Normalize000 ==
  /\ pc = "normalize"
  /\ content' = NormalizeLines000(content)
  /\ pc' = "write"
  /\ UNCHANGED <<path, given, before, disk, files, fileIndex, originalContent,
                 stringIndex, preservedStrings, stack, lastIndex, results,
                 settled, log, run>>

Next000 ==
  \/ Validate
  \/ Glob
  \/ ReadFile
  \/ ReadFails
  \/ Shield000
  \/ StripDoc
  \/ StripLine
  \/ StripBlock000
  \/ Restore
  \/ Normalize000
  \/ WriteFile
  \/ WriteFails
  \/ CallAgain


(***************************************************************************)
(* The trees removeComments is called on.  A tree is a record: texts holds *)
(* the texts of its .dart files, kind and parts say how a one-file tree    *)
(* was put together, so that a property can speak of the pieces.           *)
(***************************************************************************)

RECURSIVE Concat(_)
Concat(parts) ==
  IF parts = <<>> THEN "" ELSE Head(parts) \o Concat(Tail(parts))

OneFile(kind, parts) ==
  [kind |-> kind, parts |-> parts, texts |-> <<Concat(parts)>>]

ManyFiles(texts) == [kind |-> "files", parts |-> texts, texts |-> texts]

EmptyTree == ManyFiles(<<>>)

\* the texts of at most n pieces of P
RECURSIVE TextsOver(_, _)
TextsOver(P, n) ==
  IF n = 0 THEN {""}
  ELSE LET T == TextsOver(P, n - 1) IN T \cup {t \o p : t \in T, p \in P}

\* every argument that is no directory comes with the empty tree, the
\* directory with every tree of Trees
CallsOn(Trees) ==
  \E p \in PathArgs, g \in Trees \cup {EmptyTree} :
     /\ (p # "directory" => g = EmptyTree)
     /\ Start(p, g)

MaxPieces == 4

Pieces == {"/*", "*/", "//", "a", " ", "\n"}

\* texts of the tests of the repository and texts that show one rule each
Corpus ==
  { "code1\n// c\ncode2",
    "/* a /* b */ c */x",
    "/* never closed\ncode",
    "a /* c */b",
    "x = '${a} // b';",
    "a\n  /* c */ /* d */\nb",
    "void f() {\n  g()\n\n    .h();\n}",
    "var s = 'a // b'; /// doc\nint y = 1; // c" }

\* an unterminated comment on the first line, then the later lines
UnclosedOpeners == {"/*", "/* never closed", "/* a /* b */ c"}

LaterLines == {"code", "a\nb", "/**/aa/*", "b /* c */ dd /* e"}

UnclosedTrees ==
  { OneFile("unclosed", <<pre, open, "\n", later>>) :
      pre \in {"", "x "}, open \in UnclosedOpeners, later \in LaterLines }

TextTrees ==
  { OneFile("text", <<t>>) : t \in Corpus \cup TextsOver(Pieces, MaxPieces) }

Init == CallsOn(TextTrees \cup UnclosedTrees)

Spec == Init /\ [][Next]_vars

\* the older copy on the same trees
Spec000 == Init /\ [][Next000]_vars


(***************************************************************************)
(* Properties of one call and of a second call on the processed tree,      *)
(* checked under Spec.                                                     *)
(***************************************************************************)

\* C1: idempotence.  The transformation run on its own output gives that
\* output again: in the second call on a processed tree, the text that
\* comes out of the passes equals the text that was read, so nothing is
\* written.
C1_Idempotent ==
  (run = 2 /\ pc = "write") => content = originalContent

\* a text with no comment and no string literal in it
NoCommentNoString(t) ==
  /\ ~Includes(t, "//")
  /\ ~Includes(t, "/*")
  /\ ~Includes(t, "'")
  /\ ~Includes(t, "\"")

\* C2: code preservation.  A text with no comment and no string literal
\* comes out of the passes character for character as it was read.
C2_CodePreserved ==
  (run = 1 /\ pc = "write" /\ NoCommentNoString(originalContent))
    => content = originalContent

\* C4: comment deletion.  A line that holds only a line comment, between
\* two code lines, is removed together with its line.
C4_CommentLineDeleted ==
  (run = 1 /\ pc = "write" /\ originalContent = "code1\n// c\ncode2")
    => content = "code1\ncode2"

\* what stays of a text with an unterminated comment on its first line:
\* the code before the comment, and every later line
UnclosedKept(parts) ==
  (IF parts[1] = "" THEN "" ELSE TrimEnd(parts[1]) \o "\n") \o parts[4]

\* C8: unterminated block comment.  The text from the outermost open
\* comment start to the end of its line is deleted, and every later line
\* is kept as it is.
C8_UnterminatedKeepsLaterLines ==
  (run = 1 /\ pc = "write" /\ given.kind = "unclosed")
    => content = UnclosedKept(given.parts)


(***************************************************************************)
(* Nested block comments: code, one comment with comments nested in it,    *)
(* code.                                                                   *)
(***************************************************************************)

MaxDepth == 3

\* what stands between the delimiters of a comment
Fills == {"", " c\n"}

\* the comments with d levels of comments nested in them
RECURSIVE NestedComments(_)
NestedComments(d) ==
  IF d = 0
  THEN {"/*" \o f \o "*/" : f \in Fills}
  ELSE {"/*" \o f \o n \o g \o "*/" :
           f \in Fills, n \in NestedComments(d - 1), g \in Fills}

\* comments of the tests of the repository: two comments side by side in a
\* comment, and text around the nested comment
TestComments ==
  { "/* a /* b */ c */",
    "/* a /* b */ /* c */ d */",
    "/* Outer comment\n     /* Nested comment */\n     Still in outer comment */" }

NestedTrees ==
  { OneFile("nested", <<pre, c, post>>) :
      pre \in {"", "a ", "a\n  "},
      c \in TestComments \cup UNION {NestedComments(d) : d \in 1..MaxDepth},
      post \in {"x", " x", "x\ny"} }

InitNested == CallsOn(NestedTrees)

SpecNested == InitNested /\ [][Next]_vars

\* C5: nested block comments.  A comment with comments properly nested in
\* it is removed as one unit, from its opener to the closer that matches
\* it: what comes out is the code before the comment, without the white
\* space at its end, and then the text after the matching closer.
C5_NestedRemovedAsOne ==
  (run = 1 /\ pc = "write" /\ given.kind = "nested")
    => content = TrimEnd(given.parts[1]) \o given.parts[3]

\* the example of C5 has been processed
C5_Witness ==
  /\ run = 1
  /\ pc = "write"
  /\ given.kind = "nested"
  /\ originalContent = "/* a /* b */ c */x"
  /\ content = "x"


(***************************************************************************)
(* String literals in code context: code, one literal, code.  The parts of *)
(* such a tree are the code before, the prefix r or nothing, the quote,    *)
(* what the body begins with (nothing, a hole, an escaped quote), the rest *)
(* of the body, the quote, the code after.                                 *)
(***************************************************************************)

MaxBody == 4

BodyChars == {"/", "*", " "}

Quotes == {"'", "\"", "'''", "\"\"\""}

\* the example of a raw string, and every short run of comment characters
Bodies == {"a // b /* c */"} \cup TextsOver(BodyChars, MaxBody)

\* an escaped quote stands in literals that are not raw only
BodyStarts(prefix, q) ==
  IF prefix = "r" THEN {"", "${a}"} ELSE {"", "${a}", "\\" \o At(q, 0)}

\* the code around the literal, and what stays of the code after it
Around == {<<"", "">>, <<"x = ", ";">>, <<"x = ", " /* c */">>}

KeptAfter(post) == IF post = " /* c */" THEN "" ELSE post

LiteralTrees ==
  UNION { { OneFile("literal", <<ar[1], prefix, q, lead, body, q, ar[2]>>) :
              lead \in BodyStarts(prefix, q), body \in Bodies } :
          ar \in Around, prefix \in {"", "r"}, q \in Quotes }

InitLiteral == CallsOn(LiteralTrees)

SpecLiteral == InitLiteral /\ [][Next]_vars

\* C3: string inviolability.  The text of a string literal in code context
\* that lies outside its holes, here the rest of the body up to the closing
\* quote, stands unchanged in what comes out of the passes.
C3_StringsInviolate ==
  (run = 1 /\ pc = "write" /\ given.kind = "literal")
    => Includes(content, given.parts[5] \o given.parts[6])

\* C7: raw string passthrough.  A raw literal with no hole comes out as it
\* went in, whatever run of comment characters its body is, while the
\* comment after it is removed.
C7_RawPassthrough ==
  (run = 1 /\ pc = "write" /\ given.kind = "literal"
     /\ given.parts[2] = "r" /\ given.parts[4] = "")
    => content = Concat(SubSeq(given.parts, 1, 6)) \o KeptAfter(given.parts[7])

\* the example of C7 has been processed
C7_Witness ==
  /\ run = 1
  /\ pc = "write"
  /\ given.kind = "literal"
  /\ originalContent = "r'a // b /* c */'"
  /\ content = "r'a // b /* c */'"

(***************************************************************************)
(* Holes with comments: one literal whose hole holds the call f() and      *)
(* comments before and after it.  The parts are the quote, the text before *)
(* the hole, the opener, white space, a comment, white space, the call, a  *)
(* comment, white space, the closer, the quote.                            *)
(***************************************************************************)

CommentsBefore ==
  {"", "// c\n", "/// c\n", "/* c */", "/* c\n */", "/* a /* b */ c */", "// }\n"}

CommentsAfter == {"", " /* c */", " // c\n", "/// c\n"}

HoleTrees ==
  { OneFile("hole", <<q, t, "${", a, c1, b, "f()", c2, d, "}", q>>) :
      q \in Quotes, t \in {"", "v "}, a \in {"", " "}, c1 \in CommentsBefore,
      b \in {"", " ", "\n "}, c2 \in CommentsAfter, d \in {"", " ", "\n"} }

InitHole == CallsOn(HoleTrees)

SpecHole == InitHole /\ [][Next]_vars

\* the text between the braces of the hole of a processed hole tree
HoleBody(text, parts) ==
  Slice(text, Len(parts[1]) + Len(parts[2]) + 2, Len(text) - Len(parts[1]) - 1)

\* the comments of the hole are gone, its delimiters and its code stay
HoleStripped(text, parts) ==
  /\ StartsWith(text, parts[1] \o parts[2] \o "${")
  /\ EndsWith(text, "}" \o parts[1])
  /\ Trim(HoleBody(text, parts)) = "f()"

HoleExample == "'${ // c\n f() }'"

\* C6 as it is written: the comments in a hole are removed, delimiters and
\* code stay, and the example comes out with the closing brace at the
\* start of its line.
C6_HoleExampleFlush ==
  (run = 1 /\ pc = "write" /\ given.kind = "hole")
    => /\ HoleStripped(content, given.parts)
       /\ originalContent = HoleExample => content = "'${\n f()\n}'"


(***************************************************************************)
(* Trees of several files, and every argument on every tree.               *)
(***************************************************************************)

MaxFiles == 3

\* texts the passes change and texts they leave alone, with what comes out
AfterPasses(text) ==
  CASE text = "a" -> "a"
    [] text = "x = 'b';" -> "x = 'b';"
    [] text = "// c" -> ""
    [] text = "a // c" -> "a"
    [] text = "" -> ""

FileTexts == {"a", "x = 'b';", "// c", "a // c"}

RECURSIVE TextSeqs(_)
TextSeqs(n) ==
  IF n = 0 THEN {<<>>}
  ELSE LET S == TextSeqs(n - 1)
       IN S \cup {Append(s, t) : s \in {q \in S : Len(q) = n - 1}, t \in FileTexts}

FileTrees == {ManyFiles(texts) : texts \in TextSeqs(MaxFiles)}

InitFiles == \E p \in PathArgs, g \in FileTrees : Start(p, g)

SpecFiles == InitFiles /\ [][Next]_vars

\* the calls of one kind in the log, in order
Calls(kind) ==
  LET IsKind(e) == e[1] = kind IN SelectSeq(log, IsKind)

\* the files of the tree whose text the passes change, in processing order
ChangedFiles ==
  LET Changes(k) == AfterPasses(before[k]) # before[k]
  IN SelectSeq([k \in 1..Len(before) |-> k], Changes)

\* C9: write only on change.  When a call has returned, every file was
\* read exactly once, exactly the files whose processed text differs from
\* the text read were written, once each and with that text, and the
\* returned list holds one record for each written file, in processing
\* order, and nothing else.
C9_WriteOnlyOnChange ==
  pc = "returned" =>
    /\ Calls("read") = [k \in 1..Len(before) |-> <<"read", k>>]
    /\ Calls("write") =
         [i \in 1..Len(ChangedFiles) |-> <<"write", ChangedFiles[i]>>]
    /\ results =
         [i \in 1..Len(ChangedFiles) |-> [file |-> ChangedFiles[i], success |-> TRUE]]
    /\ disk = [k \in 1..Len(before) |-> AfterPasses(before[k])]

\* a call has returned that wrote one file and left another alone
C9_Witness ==
  /\ pc = "returned"
  /\ run = 1
  /\ Len(results) >= 1
  /\ Len(results) < Len(disk)

\* C10: invalid input.  With an argument that is missing, does not exist
\* or is no directory, the call does nothing but reject: the error is the
\* required-path message when the argument is missing, and no file is
\* enumerated, read or written.
C10_InvalidInputRejected ==
  path # "directory" =>
    /\ pc \in {"validate", "rejected"}
    /\ pc = "rejected" => settled \notin {"", "returned"}
    /\ (pc = "rejected" /\ path \in MissingPaths) => settled = RequiredMessage
    /\ \A i \in 1..Len(log) : log[i][1] = "stat"
    /\ disk = given.texts
    /\ results = <<>>

\* a call with a missing argument has been rejected, with files at hand
C10_Witness ==
  /\ path = "null"
  /\ pc = "rejected"
  /\ settled = RequiredMessage
  /\ Len(disk) > 0


\* C11: fail-fast.  When the read or the write of a file fails, the call
\* rejects with that error and does nothing more: the failed call is the
\* last one in the log, no later file was read or written, no list of
\* results is returned, the files before the failing one hold their
\* processed text, the files after it the text they had, a file whose read
\* failed the text it had, and no step follows the rejection.  Of the file
\* whose write failed nothing is said: it may be as it was, empty or cut.
C11_FailFast ==
  /\ [](settled \notin {"", "returned"} /\ path = "directory" =>
          /\ pc = "rejected"
          /\ settled \in {ReadError, WriteError, WriteCutError}
          /\ log[Len(log)] =
               <<IF settled = ReadError THEN "read" ELSE "write", files[fileIndex]>>
          /\ \A i \in 1..Len(log) : log[i][2] <= files[fileIndex]
          /\ \A j \in 1..Len(before) :
               /\ j < files[fileIndex] => disk[j] = AfterPasses(before[j])
               /\ j > files[fileIndex] => disk[j] = before[j]
               /\ (j = files[fileIndex] /\ settled = ReadError)
                    => disk[j] = before[j])
  /\ [][pc # "rejected"]_vars

\* the write of the second of three files has failed after the first file
\* was written, and has left the second file empty
C11_Witness ==
  /\ pc = "rejected"
  /\ settled = WriteCutError
  /\ Len(disk) = 3
  /\ fileIndex = 2
  /\ disk[1] # before[1]
  /\ before[2] = "a // c"
  /\ disk[2] = ""
  /\ disk[3] = before[3]
  /\ log[Len(log)] = <<"write", 2>>


(***************************************************************************)
(* Trees of one or two files, some with string literals and some with the  *)
(* text of a placeholder in their code.                                    *)
(***************************************************************************)

SharedTexts ==
  {"x = 'b';", "y = 'c' + 'd';", "a // c", "PRESERVED_STRING_0",
   "z = PRESERVED_STRING_1;"}

\* what the passes make of each of these texts when it is the only file
OwnOutput(text) ==
  CASE text = "x = 'b';" -> "x = 'b';"
    [] text = "y = 'c' + 'd';" -> "y = 'c' + 'd';"
    [] text = "a // c" -> "a"
    [] text = "PRESERVED_STRING_0" -> "undefined"
    [] text = "z = PRESERVED_STRING_1;" -> "z = undefined;"

SharedTrees ==
  {ManyFiles(<<s>>) : s \in SharedTexts}
    \cup {ManyFiles(<<s, t>>) : s \in SharedTexts, t \in SharedTexts}

InitShared == CallsOn(SharedTrees)

SpecShared == InitShared /\ [][Next]_vars

\* C12: no state shared between files.  What the passes make of a file is
\* what they make of its text when it is the only file, whichever file
\* was processed before it.
C12_NoSharedState ==
  (run = 1 /\ pc = "write") => content = OwnOutput(originalContent)


(***************************************************************************)
(* Malformed texts: comments, strings and holes that are opened and not    *)
(* closed, closers without an opener.  The block-comment loops are         *)
(* synchronous code: an iteration that can be taken is taken, which is     *)
(* weak fairness of StripBlock.                                            *)
(***************************************************************************)

MaxBroken == 3

BrokenPieces == {"/*", "*/", "'", "\"", "${", "}", "\n", "a"}

\* malformed literals of the tests of the repository, unterminated comments
BrokenCorpus ==
  { "'${' // c",
    "'${}}' // c",
    "'${/**/}'",
    "/* a /* b",
    "/*\n/**/aa/*",
    "x = 'abc",
    "x = \"abc /* c",
    "a/*a/*a*/a" }

BrokenTrees ==
  { OneFile("broken", <<t>>) :
      t \in BrokenCorpus \cup TextsOver(BrokenPieces, MaxBroken) }

InitBroken == CallsOn(BrokenTrees)

SpecBroken ==
  /\ InitBroken
  /\ [][Next]_vars
  /\ WF_vars(StripBlock)

\* C13: totality.  Whatever the text of a file, malformed or not, the
\* block-comment loops exit: once they are entered, the restore of the
\* placeholders is reached, with no error.
C13_Totality == (pc = "block") ~> (pc = "restore" /\ settled = "")

\* the passes have come to their end on a comment nested in a comment,
\* neither of them closed
C13_Witness ==
  /\ run = 1
  /\ pc = "write"
  /\ given.kind = "broken"
  /\ originalContent = "/* a /* b"
  /\ settled = ""

(***************************************************************************)
(* Comments in code: one file, with the pieces of its text kept apart so   *)
(* that the kept code can be told from the comments.                       *)
(***************************************************************************)

\* bodies of block comments that hold line-comment or doc-comment markers
SlashBodies == {" see // y ", " /// d ", "\n// a\n", " u://v "}

\* code, a closed block comment with such a body, code on the same line and
\* on the next one
SlashTrees ==
  { OneFile("slashes", <<pre, "/*", body, "*/", post>>) :
      pre \in {"", "x; "}, body \in SlashBodies, post \in {" z;\nw", "z"} }

\* comments that hold a quote character
QuoteComments ==
  {"// don't", "/// it's", "/* it's */", "// say \"hi", "// plain"}

\* a comment with a quote on its own line, then a line of code with or
\* without a trailing comment, then a last line of code
QuoteTrees ==
  { OneFile("quoted", <<c, "\n", code, tail, "\ny;">>) :
      c \in QuoteComments,
      code \in {"x;", "x = 'a';", "x = \"a\";"},
      tail \in {"", " // d"} }

\* several closed block comments on one line: after the lines of pre and
\* the whitespace of indent, n comments separated by sep, then post
RECURSIVE Repeated(_, _, _)
Repeated(c, sep, n) ==
  IF n = 1 THEN c ELSE c \o sep \o Repeated(c, sep, n - 1)

MaxComments == 3

SeveralTrees ==
  { OneFile("several", <<pre, indent, Repeated("/* a */", sep, n), post>>) :
      pre \in {"", "x\n"}, indent \in {"", " ", "  "}, sep \in {"", " "},
      n \in 2..MaxComments, post \in {"", "\ny"} }

\* code, whitespace, a block comment, and code right after the closer
JoinedTrees ==
  { OneFile("joined", <<a, ws, "/* c */", b>>) :
      a \in {"a", "int"}, ws \in {" ", "  "}, b \in {"b", "x;"} }

\* code, two slashes, the rest of the line, and a next line
ColonTrees ==
  { OneFile("colon", <<pre, "//", rest, "\n", "c">>) :
      pre \in {"u:", "x = u:", ":", "a", "a ", "", "a: "},
      rest \in {"v", " b", "", "v/w", " b: c"} }

CommentTrees ==
  SlashTrees \cup QuoteTrees \cup SeveralTrees \cup JoinedTrees \cup ColonTrees

InitComments == CallsOn(CommentTrees)

SpecComments == InitComments /\ [][Next]_vars

\* C14: a closed block comment is opaque to line-comment markers.  When its
\* body holds // or ///, only the comment is removed: the result of the file
\* is the code before it and the code after its closer, on the same line and
\* on the later ones.
C14_BlockOpaqueToSlashes ==
  (run = 1 /\ pc = "write" /\ given.kind = "slashes") =>
     content = TrimEnd(given.parts[1]) \o given.parts[5]

\* C15: a quote character inside a comment does not open a string literal.
\* After a line, doc or block comment that holds ' or ", the code of the
\* later lines is unchanged and the comment after it is removed: the result
\* is the two lines of code.
C15_QuoteInCommentInert ==
  (run = 1 /\ pc = "write" /\ given.kind = "quoted") =>
     content = given.parts[3] \o given.parts[5]

\* C16: every closed block comment in code is removed.  When a line holds
\* several of them, adjacent or separated by whitespace, after any
\* indentation, the result holds no comment opener and no closer.
C16_EveryBlockRemoved ==
  (run = 1 /\ pc = "write" /\ given.kind = "several") =>
     /\ ~Includes(content, "/*")
     /\ ~Includes(content, "*/")

\* C17: removing a block comment never joins two code tokens.  Code, then
\* whitespace, then a block comment, then code right after the closer: in
\* the result the two pieces of code are still separated by whitespace.
C17_NoTokenJoin ==
  (run = 1 /\ pc = "write" /\ given.kind = "joined") =>
     LET a == given.parts[1]
         b == given.parts[4]
     IN /\ StartsWith(content, a)
        /\ EndsWith(content, b)
        /\ Len(content) > Len(a) + Len(b)
        /\ Trim(Slice(content, Len(a), Len(content) - Len(b))) = ""

\* C18: the colon guard.  In code, a // that stands right after a colon
\* does not start a comment and the rest of its line is kept; any other //
\* starts a comment that is removed up to, and not including, the next
\* newline.  Stated after the line-comment pass, and on the result of the
\* file, where the line before the newline has lost its trailing white
\* space and is dropped when nothing is left of it.
C18_ColonGuard ==
  (run = 1 /\ given.kind = "colon") =>
     LET pre == given.parts[1]
         guarded == EndsWith(pre, ":")
     IN /\ pc = "block" =>
             content = IF guarded THEN originalContent ELSE pre \o "\nc"
        /\ pc = "write" =>
             content = IF guarded THEN originalContent
                       ELSE IF TrimEnd(pre) = "" THEN "c"
                       ELSE TrimEnd(pre) \o "\nc"

\* a line with a URL and no comment has gone through the passes unchanged
C18_Witness ==
  /\ run = 1
  /\ pc = "write"
  /\ given.kind = "colon"
  /\ originalContent = "x = u://v/w\nc"
  /\ content = originalContent

\* C19: a string literal whose interpolation holes hold no comment is copied
\* to the result unchanged, the white space inside its holes included.
C19_CommentFreeHoleUnchanged ==
  (/\ run = 1
   /\ pc = "write"
   /\ given.kind = "hole"
   /\ given.parts[5] = ""
   /\ given.parts[8] = "") => content = originalContent

(***************************************************************************)
(* Blank lines: two lines of code with a gap of blank lines and of lines   *)
(* that hold only a comment between them.                                  *)
(***************************************************************************)

MaxBlank == 3

\* an empty line, a line of one space, a line of one vertical tab (U+000B),
\* a comment line
GapPieces == {"\n", " \n", "\n", "// c\n"}

BlankTrees ==
  { OneFile("blank", <<l1, "\n", gap, l2>>) :
      l1 \in {"a", "f() {", "g()"},
      gap \in TextsOver(GapPieces, MaxBlank),
      l2 \in {"b", "}", ".h()"} }

InitBlank == CallsOn(BlankTrees)

SpecBlank == InitBlank /\ [][Next]_vars

IsBlank(line) == Trim(line) = ""

\* the index of the nearest line before (after) line i that is not blank,
\* 0 when there is none
RECURSIVE NearestBefore(_, _)
NearestBefore(lines, i) ==
  IF i <= 1 THEN 0
  ELSE IF ~IsBlank(lines[i - 1]) THEN i - 1
  ELSE NearestBefore(lines, i - 1)

RECURSIVE NearestAfter(_, _)
NearestAfter(lines, i) ==
  IF i >= Len(lines) THEN 0
  ELSE IF ~IsBlank(lines[i + 1]) THEN i + 1
  ELSE NearestAfter(lines, i + 1)

\* the conditions of rule 2 on the lines p and n around a blank line
BetweenStatements(lines, p, n) ==
  /\ p # 0
  /\ n # 0
  /\ ~EndsWith(Trim(lines[p]), "{")
  /\ ~StartsWith(Trim(lines[n]), "}")
  /\ ~(/\ \/ EndsWith(Trim(lines[p]), ")")
          \/ EndsWith(Trim(lines[p]), "}")
       /\ StartsWith(Trim(lines[n]), "."))

\* the blank lines of a text that rule 2 is about, with the nearest lines
\* that are not blank
GapsByNearest(text) ==
  LET lines == SplitLines(text)
  IN { i \in 1..Len(lines) :
         /\ IsBlank(lines[i])
         /\ BetweenStatements(lines, NearestBefore(lines, i),
                              NearestAfter(lines, i)) }

\* the same with the lines right before and right after
GapsByNeighbours(text) ==
  LET lines == SplitLines(text)
  IN { i \in 2..(Len(lines) - 1) :
         /\ IsBlank(lines[i])
         /\ ~IsBlank(lines[i - 1])
         /\ ~IsBlank(lines[i + 1])
         /\ BetweenStatements(lines, i - 1, i + 1) }

\* the blank lines of a text that stand between two other lines
InnerBlanks(text) ==
  LET lines == SplitLines(text)
  IN { j \in 2..(Len(lines) - 1) : IsBlank(lines[j]) }

\* C20 as it is written: every blank line whose nearest non-blank lines
\* before and after exist, are no { before and no } after, and are no
\* method chain, is kept by the line-by-line pass.
C20_KeptBetweenNearest ==
  [][(pc = "normalize" /\ pc' = "write") =>
        Cardinality(InnerBlanks(content')) >= Cardinality(GapsByNearest(content))]_vars

\* C20, amended: a blank line is kept, between its two neighbours, when
\* the lines right before and right after it are not blank, are no { before
\* and no } after, and are no method chain; no other blank line is kept.
C20_KeptBetweenNeighbours ==
  [][(pc = "normalize" /\ pc' = "write") =>
        LET lines == SplitLines(content)
            out == SplitLines(content')
        IN /\ \A i \in GapsByNeighbours(content) :
                \E j \in InnerBlanks(content') :
                   /\ out[j] = lines[i]
                   /\ TrimEnd(out[j - 1]) = TrimEnd(lines[i - 1])
                   /\ TrimEnd(out[j + 1]) = TrimEnd(lines[i + 1])
           /\ Cardinality(InnerBlanks(content')) =
                Cardinality(GapsByNeighbours(content))]_vars

\* the line of a removed comment has stayed as a blank line between two
\* statements
C20_Witness ==
  /\ run = 1
  /\ pc = "write"
  /\ given.kind = "blank"
  /\ originalContent = "a\n// c\nb"
  /\ content = "a\n\nb"

(***************************************************************************)
(* Method chains: a call, a gap of blank lines and comment lines, and the  *)
(* next call of the chain.                                                 *)
(***************************************************************************)

ChainTrees ==
  { OneFile("chain", <<l1, tail, "\n", gap, indent, l2, last>>) :
      l1 \in {"g()", "}", "  f(x)"},
      tail \in {"", " // c", " /* c */"},
      gap \in TextsOver(GapPieces, MaxBlank),
      indent \in {"", "  "},
      l2 \in {".h()"},
      last \in {"", "; // d"} }

InitChain == CallsOn(ChainTrees)

SpecChain == InitChain /\ [][Next]_vars

\* the text of a chain tree without the trailing comment of its last line
ChainLast(last) == IF last = "" THEN "" ELSE ";"

\* C21: blank-line rule 1.  A blank line after a line that ends with ) or }
\* and before a next non-blank line that starts with a dot is dropped: the
\* two calls of the chain are on adjacent lines of the result.
C21_ChainAdjacent ==
  (run = 1 /\ pc = "write" /\ given.kind = "chain") =>
     content = given.parts[1] \o "\n" \o given.parts[5] \o given.parts[6]
                  \o ChainLast(given.parts[7])

\* one blank line between the two calls of a chain has been dropped
C21_Witness ==
  /\ run = 1
  /\ pc = "write"
  /\ given.kind = "chain"
  /\ originalContent = "g()\n\n  .h()"
  /\ content = "g()\n  .h()"

(***************************************************************************)
(* Lines: the blank-line trees, and a triple-quoted literal whose body is  *)
(* lines of letters, white space and braces.                               *)
(***************************************************************************)

TripleBodyPieces == {"a", " ", "\n", "}"}

TripleTrees ==
  { OneFile("triple", <<"x = ", prefix, q, "\n", body, "\n", q, ";">>) :
      prefix \in {"", "r"}, q \in {"'''", "\"\"\""},
      body \in TextsOver(TripleBodyPieces, MaxBody) }

InitLines == CallsOn(BlankTrees \cup TripleTrees)

SpecLines == InitLines /\ [][Next]_vars

\* every blank line of the text lies between two lines that are not blank,
\* the one before not ending with { and the one after not starting with }
BlanksBetweenCode(text) ==
  LET lines == SplitLines(text)
  IN text # "" =>
       \A i \in 1..Len(lines) :
          IsBlank(lines[i]) =>
             /\ i > 1
             /\ i < Len(lines)
             /\ ~IsBlank(lines[i - 1])
             /\ ~IsBlank(lines[i + 1])
             /\ ~EndsWith(Trim(lines[i - 1]), "{")
             /\ ~StartsWith(Trim(lines[i + 1]), "}")

\* C22: the blank lines of every output.  Each blank line of a text that
\* went through the passes lies directly between two non-blank lines, the
\* one before not ending with { and the one after not starting with }: no
\* blank line at the start or the end, no two blank lines in a row.
C22_OutputBlankLines == pc = "write" => BlanksBetweenCode(content)

\* a run of blank lines and a comment line before a closing brace has
\* come out with no blank line left
C22_Witness ==
  /\ run = 1
  /\ pc = "write"
  /\ given.kind = "blank"
  /\ originalContent = "a\n\n \n// c\n}"
  /\ content = "a\n}"

\* C23: the body of a triple-quoted literal is not touched by the
\* line-by-line pass.  Every line between the opening and the closing
\* quotes, blank lines and trailing white space included, is in the result
\* as it was: the file, which holds nothing else to change, is unchanged.
C23_TripleBodyUntouched ==
  (run = 1 /\ pc = "write" /\ given.kind = "triple") =>
     content = originalContent

(***************************************************************************)
(* Indentation: a piece of code with white space before it on its line,    *)
(* as an ordinary line, after a block comment on its line, and as a line   *)
(* of an interpolation hole of several lines.                              *)
(***************************************************************************)

Indents == {"", "  ", "    "}

\* head, the white space of the line, what stands before the code on the
\* line, the code, and the rest of the text
IndentTrees ==
  { OneFile("indented", <<head, indent, lead, "x;", rest>>) :
      head \in {"", "a\n"}, indent \in Indents,
      lead \in {"", "/* c */ ", "/* c */"},
      rest \in {"", " // c", "\n    y;"} }
  \cup
  { OneFile("indented", <<head, indent, "", "a", rest>>) :
      head \in {"p('${\n", "p(r'${\n"},
      indent \in Indents \ {""},
      rest \in {"\n}');", "\n  }');", " // c\n}');", "\n      b\n}');"} }

InitIndent == CallsOn(IndentTrees)

SpecIndent == InitIndent /\ [][Next]_vars

\* the text has a line that starts with the code after the white space
HasLine(text, indent, code) ==
  LET lines == SplitLines(text)
  IN \E j \in 1..Len(lines) :
        /\ Indent(lines[j]) = indent
        /\ StartsWith(Trim(lines[j]), code)

\* C24: no re-indentation.  A line of code that survives keeps the leading
\* white space it had in the input, as an ordinary line, after a removed
\* block comment on its line, and inside an interpolation hole of several
\* lines of a raw or non-raw literal.
C24_IndentKept ==
  (run = 1 /\ pc = "write" /\ given.kind = "indented") =>
     HasLine(content, given.parts[2], given.parts[4])

(***************************************************************************)
(* Raw literals: one that ends with a backslash, followed by a comment and *)
(* by a later literal; and one with comments in its interpolation hole.    *)
(***************************************************************************)

RawTailTrees ==
  { OneFile("rawtail", <<"x = r", q, body, "\\", q, ";", tail, "\ny = ", q2, later, q2, ";">>) :
      q \in {"'", "\""}, body \in {"", "a", "C:"},
      tail \in {"", " // c", " /* c */"},
      q2 \in {"'", "\""}, later \in {"b", "b // d"} }

RawHoleTrees ==
  { OneFile("rawhole", <<"r" \o q, "", "${", a, c1, b, "f()", c2, d, "}", q>>) :
      q \in Quotes, a \in {"", " "}, c1 \in CommentsBefore,
      b \in {"", " ", "\n "}, c2 \in CommentsAfter \ {""}, d \in {"", " ", "\n"} }

InitRaw == CallsOn(RawTailTrees \cup RawHoleTrees)

SpecRaw == InitRaw /\ [][Next]_vars

\* the text of a raw-tail tree without its comment
RawTailKept(parts) ==
  Concat(SubSeq(parts, 1, 6)) \o Concat(SubSeq(parts, 8, 12))

\* the comments of the hole of a raw literal are gone, its delimiters and
\* its code stay
RawHoleStripped(text, parts) ==
  /\ StartsWith(text, parts[1] \o "${")
  /\ EndsWith(text, "}" \o parts[11])
  /\ Trim(Slice(text, Len(parts[1]) + 2, Len(text) - Len(parts[11]) - 1)) = "f()"

\* C25: raw literals have no backslash escapes.  A raw literal ends at the
\* quote that follows a backslash: the comment after it is removed and the
\* later literal of the file is as it was.  The comments in the hole of a
\* raw literal are removed.
C25_RawNoEscapes ==
  (run = 1 /\ pc = "write") =>
     /\ given.kind = "rawtail" => content = RawTailKept(given.parts)
     /\ given.kind = "rawhole" => RawHoleStripped(content, given.parts)

====
